---------------------------- MODULE Spec2Model ----------------------------
(***************************************************************************)
(* Model of CustomDomainRegistrationReconciler                             *)
(* (controllers/customdomainregistration_controller.go).                   *)
(*                                                                         *)
(* Two CustomDomainRegistration objects of the same name, in two           *)
(* namespaces, are reconciled by concurrent passes of Reconcile.  Both     *)
(* bind to the one cluster-scoped CustomDomain of that name.  Every call   *)
(* a pass makes to the API server (Get, Create, Patch, Update,             *)
(* Status().Update) is one atomic step; the passes of different            *)
(* registrations interleave between those calls, the passes of one         *)
(* registration are serialized by the work queue.                          *)
(***************************************************************************)
EXTENDS Naturals, Sequences, FiniteSets

VARIABLES
    regs,        \* API server: the stored CustomDomainRegistration objects
    domains,     \* API server: the stored CustomDomain objects, by name
    now,         \* the time condition.MergeFrom read last
    failures,    \* number of API calls that failed with a transient error
    pc,          \* position of each registration's reconcile pass
    reg,         \* Reconcile: var reg (the in-memory registration)
    domain,      \* registerDomain/unregisterDomain: var domain
    conditions,  \* Reconcile: var conditions
    doFinalize,  \* Reconcile: doFinalize
    calls,       \* the API calls the current (or last) pass has made, in order
    result       \* what the last finished pass returned

vars == <<regs, domains, now, failures, pc, reg, domain, conditions,
          doFinalize, calls, result>>

---------------------------------------------------------------------------
(* Bounds *)

\* transient API failures injected in one run
MaxFailures == 1
\* last tick of the wall clock
MaxClock == 2

---------------------------------------------------------------------------
(* The objects *)

Regs == {"r1", "r2"}

Namespace(r) == IF r = "r1" THEN "ns1" ELSE "ns2"
UID(r) == IF r = "r1" THEN "u1" ELSE "u2"

\* Names a registration (and so its CustomDomain) can have.  The second one
\* is a name verification.MakeDNSRecordName cannot map to a record name.
Hostnames == {"acme.example", "bad_host"}

DomainFinalizer == "domain.skygear.io/finalizer"
\* A finalizer some other controller put on a registration.
OtherFinalizer == "other.example.com/finalizer"

RegistrationAccepted == "Accepted"
RegistrationVerified == "Verified"
ConditionTrue == "True"
ConditionFalse == "False"
ConditionUnknown == "Unknown"

NoKey == "<nil>"

NoDomain ==
    [exists |-> FALSE, name |-> "", registrations |-> <<>>,
     verificationKey |-> NoKey, dnsRecords |-> <<>>]

NoReg ==
    [exists |-> FALSE, namespace |-> "", name |-> "", uid |-> "",
     deletionTimestamp |-> FALSE, finalizers |-> {}, conditions |-> <<>>,
     dnsRecords |-> <<>>, stale |-> FALSE]

NoResult == [requeue |-> FALSE, err |-> "<none>"]

Range(s) == {s[i] : i \in 1..Len(s)}


---------------------------------------------------------------------------
(* util/slice, util/condition and the collaborators of verifyDomainIfNeeded *)

\* slice.ContainsObjectReference: some element matches obj on
\* (namespace, name, UID)
ContainsObjectReference(refs, obj) ==
    \E i \in 1..Len(refs) :
        /\ refs[i].namespace = obj.namespace
        /\ refs[i].name = obj.name
        /\ refs[i].uid = obj.uid

RemoveMatch(ref, obj) ==
    ~(ref.namespace = obj.namespace /\ ref.name = obj.name /\ ref.uid = obj.uid)

\* slice.RemoveObjectReference: every matching element removed, order kept
RemoveObjectReference(refs, obj) ==
    SelectSeq(refs, LAMBDA ref : RemoveMatch(ref, obj))

\* condition.ToStatus
ToStatus(b) == IF b THEN ConditionTrue ELSE ConditionFalse

\* The lastTransitionTime condition.MergeFrom gives to condition c: the one
\* of the previous condition of the same type and status, else the time t.
TransitionTime(c, prev, t) ==
    IF \E i \in 1..Len(prev) : prev[i].type = c.type /\ prev[i].status = c.status
    THEN LET i == CHOOSE j \in 1..Len(prev) :
                      prev[j].type = c.type /\ prev[j].status = c.status
         IN  prev[i].lastTransitionTime
    ELSE t

\* condition.MergeFrom(conditions, previous), at time t
MergeFrom(conds, prev, t) ==
    [i \in 1..Len(conds) |->
        [conds[i] EXCEPT !.lastTransitionTime = TransitionTime(conds[i], prev, t)]]

\* r.VerificationTokenGenerator(key, nonce): injected, deterministic
VerificationTokenGenerator(key, nonce) == <<"token", key, nonce>>

\* verification.MakeDNSRecordName(name): (record name, error)
MakeDNSRecordName(name) ==
    IF name = "bad_host"
    THEN [value |-> <<>>, err |-> "NamingError"]
    ELSE [value |-> <<"_domain-verification", name>>, err |-> "<none>"]

NoErr == "<none>"

---------------------------------------------------------------------------
(* The API server *)

\* One more transient failure may be injected.
MayFail == failures < MaxFailures

\* The object r.Get(ctx, req.NamespacedName, &reg) fills in.
Loaded(r) ==
    [exists |-> TRUE, namespace |-> Namespace(r), name |-> regs[r].name,
     uid |-> UID(r), deletionTimestamp |-> regs[r].deletionTimestamp,
     finalizers |-> regs[r].finalizers, conditions |-> regs[r].conditions,
     dnsRecords |-> regs[r].dnsRecords, stale |-> FALSE]

\* The error of an Update of registration r from the in-memory object obj:
\* the server refuses an object that is gone or whose resourceVersion is old.
UpdateErr(r, obj) ==
    IF ~regs[r].exists THEN "NotFound"
    ELSE IF obj.stale THEN "Conflict"
    ELSE NoErr

\* client.MergeFrom(original).Data(modified): a JSON merge patch, the
\* fields of modified that differ from original.  It carries no
\* resourceVersion: the server applies it to whatever is stored.
MergePatchData(original, modified) ==
    IF original.registrations = modified.registrations
    THEN [hasRegistrations |-> FALSE, registrations |-> <<>>]
    ELSE [hasRegistrations |-> TRUE, registrations |-> modified.registrations]

\* The stored object after the server applied a JSON merge patch: a list in
\* the patch replaces the stored list whole.
ApplyMergePatch(stored, patch) ==
    IF patch.hasRegistrations
    THEN [stored EXCEPT !.registrations = patch.registrations]
    ELSE stored

---------------------------------------------------------------------------
(* The decisions of Reconcile, registerDomain, unregisterDomain and        *)
(* verifyDomainIfNeeded, as functions of the objects in memory             *)

\* registerDomain: regRef (APIVersion and Kind are the same for every
\* registration and are left out)
regRef(obj) ==
    [namespace |-> obj.namespace, name |-> obj.name, uid |-> obj.uid]

\* NewDomain with the reference left out of the new list
NewDomain_NoReference(obj) ==
    [exists |-> TRUE, name |-> obj.name, registrations |-> <<>>,
     verificationKey |-> NoKey, dnsRecords |-> <<>>]

\* registerDomain: the CustomDomain it creates when none is found
NewDomain(obj) ==
    [exists |-> TRUE, name |-> obj.name, registrations |-> <<regRef(obj)>>,
     verificationKey |-> NoKey, dnsRecords |-> <<>>]

\* NeedsRegister with the membership test looking at the first reference
\* of the list only
NeedsRegister_FirstOnly(dom, obj) ==
    ~(/\ Len(dom.registrations) > 0
      /\ ~RemoveMatch(dom.registrations[1], obj))

\* NeedsRegister of a found domain never true
NeedsRegister_Never(dom, obj) == FALSE

\* NeedsRegister without the membership test
NeedsRegister_Always(dom, obj) == TRUE

\* registerDomain: whether the found domain has to be patched
NeedsRegister(dom, obj) ==
    ~ContainsObjectReference(dom.registrations, obj)

\* registerDomain: the domain after the append
Registered(dom, obj) ==
    [dom EXCEPT !.registrations = Append(@, regRef(obj))]

\* NeedsUnregister without the membership test
NeedsUnregister_Always(dom, obj) == TRUE

\* unregisterDomain: whether the found domain has to be patched
NeedsUnregister(dom, obj) ==
    ContainsObjectReference(dom.registrations, obj)

\* Unregistered with the removal forgotten
Unregistered_Kept(dom, obj) == dom

\* unregisterDomain: the domain after the removal
Unregistered(dom, obj) ==
    [dom EXCEPT !.registrations = RemoveObjectReference(@, obj)]

\* StillRegistered with the membership test negated
StillRegistered_Negated(dom, obj) ==
    ~ContainsObjectReference(dom.registrations, obj)

\* unregisterDomain: the value of registered it returns without error,
\* computed from the domain held in memory
StillRegistered(dom, obj) ==
    ContainsObjectReference(dom.registrations, obj)

\* Reconcile: the condition appended after verifyDomainIfNeeded
VerifiedCondition(verified, err) ==
    IF err # NoErr
    THEN [type |-> RegistrationVerified, status |-> ConditionUnknown,
          message |-> err, lastTransitionTime |-> 0]
    ELSE [type |-> RegistrationVerified, status |-> ToStatus(verified),
          message |-> "", lastTransitionTime |-> 0]

\* AcceptedCondition with the error dropped
AcceptedCondition_ErrDropped(registered, err) ==
    [type |-> RegistrationAccepted, status |-> ToStatus(registered),
     message |-> "", lastTransitionTime |-> 0]

\* Reconcile: the condition appended after unregisterDomain
AcceptedCondition(registered, err) ==
    IF err # NoErr
    THEN [type |-> RegistrationAccepted, status |-> ConditionUnknown,
          message |-> err, lastTransitionTime |-> 0]
    ELSE [type |-> RegistrationAccepted, status |-> ToStatus(registered),
          message |-> "", lastTransitionTime |-> 0]

\* FinalizeAfter with doFinalize left at its zero value
FinalizeAfter_Never(registered, err) == FALSE

\* FinalizeAfter with the error ignored
FinalizeAfter_ErrIgnored(registered, err) == TRUE /\ ~registered

\* Reconcile: doFinalize after unregisterDomain returned (registered, err)
FinalizeAfter(registered, err) ==
    IF err # NoErr THEN FALSE ELSE TRUE /\ ~registered

\* CurrentVerified true of a Verified condition of any status
CurrentVerified_AnyStatus(conds) ==
    \E i \in 1..Len(conds) : conds[i].type = RegistrationVerified

\* CurrentVerified with the loop over the conditions left out
CurrentVerified_Never(conds) == FALSE

\* verifyDomainIfNeeded: currentVerified, from the first Verified condition
CurrentVerified(conds) ==
    IF \E i \in 1..Len(conds) : conds[i].type = RegistrationVerified
    THEN LET i == CHOOSE j \in 1..Len(conds) :
                      /\ conds[j].type = RegistrationVerified
                      /\ \A k \in 1..(j - 1) : conds[k].type # RegistrationVerified
         IN  conds[i].status = ConditionTrue
    ELSE FALSE

\* VerifyWithKey with the TXT record appended to the records the
\* registration already has
VerifyWithKey_AppendsToOwn(dom, obj) ==
    LET token == VerificationTokenGenerator(dom.verificationKey, obj.uid)
        dnsRecordName == MakeDNSRecordName(dom.name)
    IN  IF dnsRecordName.err # NoErr
        THEN [verified |-> FALSE, err |-> dnsRecordName.err,
              dnsRecords |-> obj.dnsRecords]
        ELSE [verified |-> CurrentVerified(obj.conditions), err |-> NoErr,
              dnsRecords |->
                  Append(IF obj.dnsRecords = <<>> THEN dom.dnsRecords
                                                  ELSE obj.dnsRecords,
                         [name |-> dnsRecordName.value, type |-> "TXT",
                          value |-> token])]

\* verifyDomainIfNeeded once the verification key is known to be there: the
\* token, the record name, the records and currentVerified
VerifyWithKey(dom, obj) ==
    LET token == VerificationTokenGenerator(dom.verificationKey, obj.uid)
        dnsRecordName == MakeDNSRecordName(dom.name)
    IN  IF dnsRecordName.err # NoErr
        THEN [verified |-> FALSE, err |-> dnsRecordName.err,
              dnsRecords |-> obj.dnsRecords]
        ELSE [verified |-> CurrentVerified(obj.conditions), err |-> NoErr,
              dnsRecords |->
                  Append(dom.dnsRecords,
                         [name |-> dnsRecordName.value, type |-> "TXT",
                          value |-> token])]

\* VerifyFound with the records of the CustomDomain stored on the
\* registration before the verification key is looked at
VerifyFound_RecordsFirst(dom, obj) ==
    IF dom.verificationKey = NoKey
    THEN [verified |-> FALSE, err |-> NoErr, dnsRecords |-> dom.dnsRecords]
    ELSE VerifyWithKey(dom, obj)

\* verifyDomainIfNeeded after its Get found dom: what it returns and the
\* DNSRecords it leaves in reg.Status
VerifyFound(dom, obj) ==
    IF dom.verificationKey = NoKey
    THEN [verified |-> FALSE, err |-> NoErr, dnsRecords |-> obj.dnsRecords]
    ELSE VerifyWithKey(dom, obj)

---------------------------------------------------------------------------
(* Initial states *)

\* A reference left in a domain by an earlier registration ns1/<name> that
\* has since been deleted and created again (another UID).
StaleRef(n) == [namespace |-> "ns1", name |-> n, uid |-> "u0"]

ARecord(n) == [name |-> <<n>>, type |-> "A", value |-> <<"10.0.0.1">>]

OldDomain(n, l, k) ==
    [exists |-> TRUE, name |-> n, registrations |-> l, verificationKey |-> k,
     dnsRecords |-> <<ARecord(n)>>]

\* The CustomDomain named n before the first pass: none, or one that earlier
\* registrations created (the controller never deletes a CustomDomain), to
\* which an administrator may have given a verification key.
InitDomains(n) ==
    IF n = "bad_host"
    THEN {OldDomain(n, <<>>, "k")}
    ELSE {NoDomain, OldDomain(n, <<>>, "k"),
          OldDomain(n, <<StaleRef(n)>>, NoKey)}

\* Finalizers of other controllers on r1 before the first pass; they are
\* followed from the creation of the CustomDomain on.
InitFinalizers(d) == IF d = NoDomain THEN {{}, {OtherFinalizer}} ELSE {{}}

Init ==
    /\ \E n \in Hostnames :
        \E d \in InitDomains(n) :
            /\ domains = [h \in Hostnames |-> IF h = n THEN d ELSE NoDomain]
            /\ \E other \in InitFinalizers(d) :
                  regs = [r \in Regs |->
                            [exists |-> TRUE, name |-> n,
                             deletionTimestamp |-> FALSE,
                             finalizers |-> IF r = "r1" THEN other ELSE {},
                             conditions |-> <<>>, dnsRecords |-> <<>>]]
    /\ now = 1
    /\ failures = 0
    /\ pc = [r \in Regs |-> "idle"]
    /\ reg = [r \in Regs |-> NoReg]
    /\ domain = [r \in Regs |-> NoDomain]
    /\ conditions = [r \in Regs |-> <<>>]
    /\ doFinalize = [r \in Regs |-> FALSE]
    /\ calls = [r \in Regs |-> <<>>]
    /\ result = [r \in Regs |-> NoResult]

---------------------------------------------------------------------------
(* Steps of a pass *)

\* The pass of r makes the API call c.
Call(r, c) == calls' = [calls EXCEPT ![r] = Append(@, c)]

\* Return with the error dropped: return ctrl.Result{}, nil
Return_NilErr(r, requeue, err) ==
    /\ pc' = [pc EXCEPT ![r] = "idle"]
    /\ result' = [result EXCEPT ![r] = [requeue |-> requeue, err |-> NoErr]]
    /\ reg' = [reg EXCEPT ![r] = NoReg]
    /\ domain' = [domain EXCEPT ![r] = NoDomain]
    /\ conditions' = [conditions EXCEPT ![r] = <<>>]
    /\ doFinalize' = [doFinalize EXCEPT ![r] = FALSE]

\* Reconcile returns (ctrl.Result{Requeue: requeue}, err): the pass is over
\* and its in-memory objects are gone.
Return(r, requeue, err) ==
    /\ pc' = [pc EXCEPT ![r] = "idle"]
    /\ result' = [result EXCEPT ![r] = [requeue |-> requeue, err |-> err]]
    /\ reg' = [reg EXCEPT ![r] = NoReg]
    /\ domain' = [domain EXCEPT ![r] = NoDomain]
    /\ conditions' = [conditions EXCEPT ![r] = <<>>]
    /\ doFinalize' = [doFinalize EXCEPT ![r] = FALSE]

\* A transient failure of the API call the pass of r is about to make.
Fail == /\ MayFail
        /\ failures' = failures + 1

\* Reconcile: r.Get(ctx, req.NamespacedName, &reg), on a delivery of r, and
\* the branch taken on reg.DeletionTimestamp; finalizer.Ensure makes no API
\* call when the finalizer is there
LoadRegistration(r) ==
    /\ pc[r] = "idle"
    /\ calls' = [calls EXCEPT ![r] = <<"Get(reg)">>]
    /\ UNCHANGED <<regs, domains, now>>
    /\ \/ /\ Fail
          /\ Return(r, FALSE, "StoreError")
       \/ /\ ~regs[r].exists
          /\ Return(r, FALSE, NoErr)
          /\ UNCHANGED failures
       \/ /\ regs[r].exists
          /\ reg' = [reg EXCEPT ![r] = Loaded(r)]
          /\ pc' = [pc EXCEPT ![r] =
                      IF regs[r].deletionTimestamp THEN "unregisterDomain"
                      ELSE IF DomainFinalizer \in regs[r].finalizers
                           THEN "registerDomain"
                           ELSE "Ensure"]
          /\ UNCHANGED <<failures, domain, conditions, doFinalize, result>>

\* finalizer.Ensure(r, ctx, &reg, domain.DomainFinalizer) when the finalizer
\* is missing: it is added and the object persisted; the pass ends with
\* Requeue
EnsureAdd(r) ==
    /\ pc[r] = "Ensure"
    /\ DomainFinalizer \notin reg[r].finalizers
    /\ Call(r, "Update(reg)")
    /\ UNCHANGED <<domains, now>>
    /\ \/ /\ Fail
          /\ Return(r, FALSE, "StoreError")
          /\ UNCHANGED regs
       \/ /\ UpdateErr(r, reg[r]) # NoErr
          /\ Return(r, FALSE, UpdateErr(r, reg[r]))
          /\ UNCHANGED <<regs, failures>>
       \/ /\ UpdateErr(r, reg[r]) = NoErr
          /\ regs' = [regs EXCEPT ![r].finalizers = @ \cup {DomainFinalizer}]
          /\ Return(r, TRUE, NoErr)
          /\ UNCHANGED failures

\* RegisterErr with the error recorded as a condition, as is done for the
\* error of verifyDomainIfNeeded, and the pass going on
RegisterErr_Recorded(r, err) ==
    /\ pc' = [pc EXCEPT ![r] = "Status.Update"]
    /\ conditions' = [conditions EXCEPT ![r] =
          Append(@, VerifiedCondition(FALSE, err))]
    /\ domain' = [domain EXCEPT ![r] = NoDomain]
    /\ UNCHANGED <<reg, doFinalize, result>>

\* Reconcile: registerDomain returned err, and Reconcile returns it
RegisterErr(r, err) == Return(r, FALSE, err)

\* registerDomain: r.Get(ctx, types.NamespacedName{Name: reg.Name}, &domain)
RegisterGet(r) ==
    /\ pc[r] = "registerDomain"
    /\ Call(r, "Get(domain)")
    /\ UNCHANGED <<regs, domains, now>>
    /\ \/ /\ Fail
          /\ RegisterErr(r, "StoreError")
       \/ /\ domain' = [domain EXCEPT ![r] =
                      IF ~domains[reg[r].name].exists
                         \/ ~NeedsRegister(domains[reg[r].name], reg[r])
                      THEN NoDomain
                      ELSE domains[reg[r].name]]
          /\ pc' = [pc EXCEPT ![r] =
                      IF ~domains[reg[r].name].exists THEN "Create"
                      ELSE IF NeedsRegister(domains[reg[r].name], reg[r])
                           THEN "registerDomain.Patch"
                           ELSE "verifyDomainIfNeeded"]
          /\ UNCHANGED <<failures, reg, conditions, doFinalize, result>>

\* registerDomain: r.Create(ctx, &domain)
RegisterCreate(r) ==
    /\ pc[r] = "Create"
    /\ Call(r, "Create(domain)")
    /\ UNCHANGED <<regs, now>>
    /\ \/ /\ Fail
          /\ RegisterErr(r, "StoreError")
          /\ UNCHANGED domains
       \/ /\ domains[reg[r].name].exists
          /\ RegisterErr(r, "AlreadyExists")
          /\ UNCHANGED <<domains, failures>>
       \/ /\ ~domains[reg[r].name].exists
          /\ domains' = [domains EXCEPT ![NewDomain(reg[r]).name] = NewDomain(reg[r])]
          /\ UNCHANGED domain
          /\ pc' = [pc EXCEPT ![r] = "verifyDomainIfNeeded"]
          /\ UNCHANGED <<failures, reg, conditions, doFinalize, result>>

\* registerDomain: r.Patch(ctx, &domain, patch), patch taken from the
\* snapshot before the append
RegisterPatch(r) ==
    /\ pc[r] = "registerDomain.Patch"
    /\ Call(r, "Patch(domain)")
    /\ UNCHANGED <<regs, now>>
    /\ \/ /\ Fail
          /\ RegisterErr(r, "StoreError")
          /\ UNCHANGED domains
       \/ /\ domains' = [domains EXCEPT ![domain[r].name] =
                ApplyMergePatch(@, MergePatchData(domain[r],
                                                  Registered(domain[r], reg[r])))]
          /\ domain' = [domain EXCEPT ![r] = NoDomain]
          /\ pc' = [pc EXCEPT ![r] = "verifyDomainIfNeeded"]
          /\ UNCHANGED <<failures, reg, conditions, doFinalize, result>>

\* verifyDomainIfNeeded, whole (its one API call is the Get), and the
\* Verified condition Reconcile appends for what it returned
VerifyDomain(r) ==
    /\ pc[r] = "verifyDomainIfNeeded"
    /\ Call(r, "Get(domain)")
    /\ pc' = [pc EXCEPT ![r] = "Status.Update"]
    /\ UNCHANGED <<regs, domains, now, domain, doFinalize, result>>
    /\ \/ /\ Fail
          /\ conditions' = [conditions EXCEPT ![r] =
                Append(@, VerifiedCondition(FALSE, "StoreError"))]
          /\ UNCHANGED reg
       \/ /\ LET found == domains[reg[r].name]
                 v == IF found.exists
                      THEN VerifyFound(found, reg[r])
                      ELSE [verified |-> FALSE, err |-> "NotFound",
                            dnsRecords |-> reg[r].dnsRecords]
             IN  /\ reg' = [reg EXCEPT ![r].dnsRecords = v.dnsRecords]
                 /\ conditions' = [conditions EXCEPT ![r] =
                       Append(@, VerifiedCondition(v.verified, v.err))]
          /\ UNCHANGED failures

\* Unregistered_Returned with the Accepted condition appended to the
\* conditions the registration was loaded with
Unregistered_Returned_KeepsOld(r, registered, err) ==
    /\ doFinalize' = [doFinalize EXCEPT ![r] = FinalizeAfter(registered, err)]
    /\ domain' = [domain EXCEPT ![r] = NoDomain]
    /\ conditions' = [conditions EXCEPT ![r] =
          Append(reg[r].conditions, AcceptedCondition(registered, err))]
    /\ pc' = [pc EXCEPT ![r] = "Status.Update"]

\* The deletion branch of Reconcile once unregisterDomain has returned
\* (registered, err): doFinalize and the Accepted condition
Unregistered_Returned(r, registered, err) ==
    /\ doFinalize' = [doFinalize EXCEPT ![r] = FinalizeAfter(registered, err)]
    /\ domain' = [domain EXCEPT ![r] = NoDomain]
    /\ conditions' = [conditions EXCEPT ![r] =
          Append(@, AcceptedCondition(registered, err))]
    /\ pc' = [pc EXCEPT ![r] = "Status.Update"]

\* unregisterDomain: r.Get(ctx, types.NamespacedName{Name: reg.Name}, &domain)
\* and, when there is nothing to patch, its return
UnregisterGet(r) ==
    /\ pc[r] = "unregisterDomain"
    /\ Call(r, "Get(domain)")
    /\ UNCHANGED <<regs, domains, now, reg, result>>
    /\ \/ /\ Fail
          /\ Unregistered_Returned(r, FALSE, "StoreError")
       \/ /\ ~domains[reg[r].name].exists
          /\ Unregistered_Returned(r, FALSE, NoErr)
          /\ UNCHANGED failures
       \/ /\ domains[reg[r].name].exists
          /\ ~NeedsUnregister(domains[reg[r].name], reg[r])
          /\ Unregistered_Returned(r,
                StillRegistered(domains[reg[r].name], reg[r]), NoErr)
          /\ UNCHANGED failures
       \/ /\ domains[reg[r].name].exists
          /\ NeedsUnregister(domains[reg[r].name], reg[r])
          /\ domain' = [domain EXCEPT ![r] = domains[reg[r].name]]
          /\ pc' = [pc EXCEPT ![r] = "unregisterDomain.Patch"]
          /\ UNCHANGED <<failures, conditions, doFinalize>>

\* unregisterDomain: r.Patch(ctx, &domain, patch), patch taken from the
\* snapshot before the removal, and its return
UnregisterPatch(r) ==
    /\ pc[r] = "unregisterDomain.Patch"
    /\ Call(r, "Patch(domain)")
    /\ UNCHANGED <<regs, now, reg, result>>
    /\ \/ /\ Fail
          /\ Unregistered_Returned(r, FALSE, "StoreError")
          /\ UNCHANGED domains
       \/ /\ domains' = [domains EXCEPT ![domain[r].name] =
                ApplyMergePatch(@, MergePatchData(domain[r],
                                                  Unregistered(domain[r], reg[r])))]
          /\ Unregistered_Returned(r,
                StillRegistered(Unregistered(domain[r], reg[r]), reg[r]), NoErr)
          /\ UNCHANGED failures

\* The times the clock can show when it is read next, having shown t.
Later(t) == {u \in {t, t + 1} : u <= MaxClock}

\* Reconcile: condition.MergeFrom (which reads the clock),
\* reg.Status.Conditions = conditions and r.Status().Update(ctx, &reg)
UpdateStatus(r) ==
    /\ pc[r] = "Status.Update"
    /\ Call(r, "Status().Update(reg)")
    /\ now' \in Later(now)
    /\ UNCHANGED domains
    /\ \/ /\ Fail
          /\ Return(r, FALSE, "StoreError")
          /\ UNCHANGED regs
       \/ /\ UpdateErr(r, reg[r]) # NoErr
          /\ Return(r, FALSE, UpdateErr(r, reg[r]))
          /\ UNCHANGED <<regs, failures>>
       \/ /\ UpdateErr(r, reg[r]) = NoErr
          /\ LET merged == MergeFrom(conditions[r], reg[r].conditions, now')
             IN  /\ regs' = [regs EXCEPT ![r].conditions = merged,
                                         ![r].dnsRecords = reg[r].dnsRecords]
                 /\ IF doFinalize[r]
                    THEN /\ pc' = [pc EXCEPT ![r] = "Remove"]
                         /\ reg' = [reg EXCEPT ![r].conditions = merged]
                         /\ UNCHANGED <<domain, conditions, doFinalize, result>>
                    ELSE Return(r, FALSE, NoErr)
          /\ UNCHANGED failures

\* The stored registration r once its last finalizer is gone while its
\* deletionTimestamp is set: the API server deletes the object.
Released(r, stored) ==
    IF stored.deletionTimestamp /\ stored.finalizers = {}
    THEN [exists |-> FALSE, name |-> stored.name, deletionTimestamp |-> FALSE,
          finalizers |-> {}, conditions |-> <<>>, dnsRecords |-> <<>>]
    ELSE stored

\* finalizer.Remove(r, ctx, &reg, domain.DomainFinalizer): the last call of
\* a pass, whose error Reconcile returns
FinalizerRemove(r) ==
    /\ pc[r] = "Remove"
    /\ Call(r, "Update(reg)")
    /\ UNCHANGED <<domains, now>>
    /\ \/ /\ Fail
          /\ Return(r, FALSE, "StoreError")
          /\ UNCHANGED regs
       \/ /\ regs' = IF UpdateErr(r, reg[r]) # NoErr THEN regs
                     ELSE [regs EXCEPT ![r] =
                             Released(r, [@ EXCEPT !.finalizers =
                                                     @ \ {DomainFinalizer}])]
          /\ Return(r, FALSE, UpdateErr(r, reg[r]))
          /\ UNCHANGED failures

---------------------------------------------------------------------------
(* The world around the controller *)

\* The owner deletes registration r: the API server sets deletionTimestamp,
\* or deletes the object at once when it carries no finalizer.  A pass that
\* holds the object now holds an old resourceVersion.
OwnerDelete(r) ==
    /\ regs[r].exists
    /\ ~regs[r].deletionTimestamp
    /\ regs' = [regs EXCEPT ![r] =
                  Released(r, [@ EXCEPT !.deletionTimestamp = TRUE])]
    /\ reg' = [reg EXCEPT ![r].stale = reg[r].exists]
    /\ UNCHANGED <<domains, now, failures, pc, domain, conditions, doFinalize,
                   calls, result>>

Next ==
    \/ \E r \in Regs : LoadRegistration(r)
    \/ \E r \in Regs : EnsureAdd(r)
    \/ \E r \in Regs : RegisterGet(r)
    \/ \E r \in Regs : RegisterCreate(r)
    \/ \E r \in Regs : RegisterPatch(r)
    \/ \E r \in Regs : VerifyDomain(r)
    \/ \E r \in Regs : UnregisterGet(r)
    \/ \E r \in Regs : UnregisterPatch(r)
    \/ \E r \in Regs : UpdateStatus(r)
    \/ \E r \in Regs : FinalizerRemove(r)
    \/ \E r \in Regs : OwnerDelete(r)

Spec == Init /\ [][Next]_vars

---------------------------------------------------------------------------
(* Properties *)

\* The pass of r takes a step.
Steps(r) == calls'[r] # calls[r]

\* The pass of r holds the finalizer in the registration it loaded.
HoldsFinalizer(r) == DomainFinalizer \in reg[r].finalizers

\* C1: in every interleaving of passes of different registrations on one
\* CustomDomain, a reference in the stored spec.registrations stays there
\* until the unregister patch of its own registration removes it; in
\* particular the register patch of another registration never removes it.
C1_ReferenceKeptUntilOwnUnregister ==
    [][\A h \in Hostnames : \A ref \in Range(domains[h].registrations) :
          \/ ref \in Range(domains'[h].registrations)
          \/ \E r \in Regs : /\ pc[r] = "unregisterDomain.Patch"
                             /\ Steps(r)
                             /\ regRef(reg[r]) = ref]_vars

\* The pass of r removes the finalizer from the stored registration.
RemovesFinalizer(r) ==
    /\ DomainFinalizer \in regs[r].finalizers
    /\ DomainFinalizer \notin regs'[r].finalizers

\* The last status the pass of r persisted is Accepted = False, no message.
PersistedAcceptedFalse(r) ==
    /\ Len(regs[r].conditions) = 1
    /\ regs[r].conditions[1].type = RegistrationAccepted
    /\ regs[r].conditions[1].status = ConditionFalse
    /\ regs[r].conditions[1].message = ""

\* C2: the finalizer of a registration is removed only by a pass that loaded
\* the registration with deletionTimestamp set, whose unregister returned no
\* error and stillRegistered = false, and whose status update succeeded;
\* every other pass leaves it in place.
C2_FinalizerRemovedOnlyAfterCleanup ==
    [][\A r \in Regs : RemovesFinalizer(r) =>
          /\ pc[r] = "Remove"
          /\ reg[r].deletionTimestamp
          /\ conditions[r] = <<AcceptedCondition(FALSE, NoErr)>>
          /\ calls[r][Len(calls[r])] = "Status().Update(reg)"
          /\ PersistedAcceptedFalse(r)]_vars

\* A deletion pass has removed the finalizer and returned.
C2_Witness ==
    \E r \in Regs :
        /\ pc[r] = "idle"
        /\ result[r].err = NoErr
        /\ Len(calls[r]) >= 4
        /\ calls[r][Len(calls[r])] = "Update(reg)"
        /\ ~regs[r].exists

\* C3 (first half): a pass creates or patches the CustomDomain for a
\* registration only if the registration it loaded carried the finalizer.
C3_DomainWriteOnlyWithFinalizer ==
    \A r \in Regs :
        pc[r] \in {"Create", "registerDomain.Patch", "unregisterDomain.Patch"}
            => HoldsFinalizer(r)

\* C3 (second half): a pass in which Ensure added the finalizer ends there
\* with Requeue, having made no other call than the two on the registration.
C3_EnsureAddStopsPass ==
    \A r \in Regs :
        (pc[r] = "idle" /\ result[r].requeue) =>
            /\ calls[r] = <<"Get(reg)", "Update(reg)">>
            /\ result[r].err = NoErr

\* The reference of registration r, from its identity in the API server.
RefOf(r) == [namespace |-> Namespace(r), name |-> regs[r].name, uid |-> UID(r)]

\* The stored CustomDomain registration r binds to.
DomainOf(r) == domains[regs[r].name]

\* The step the pass of r takes is an API call that fails.
FailedCall(r) == Steps(r) /\ failures' = failures + 1

\* C4: register is idempotent.  When the reference of the registration is
\* already in the list of the stored CustomDomain, registerDomain returns
\* after its Get, and neither it nor the rest of the pass creates or patches
\* the CustomDomain: spec.registrations keeps its length, content and order.
C4_RegisterIdempotent ==
    [][\A r \in Regs :
          /\ (/\ pc[r] = "registerDomain"
              /\ Steps(r)
              /\ ~FailedCall(r)
              /\ DomainOf(r).exists
              /\ RefOf(r) \in Range(DomainOf(r).registrations))
             => /\ pc'[r] = "verifyDomainIfNeeded"
                /\ calls'[r] = <<"Get(reg)", "Get(domain)">>
                /\ domains' = domains
          /\ (pc[r] \in {"verifyDomainIfNeeded", "Status.Update"} /\ Steps(r))
             => domains' = domains]_vars

\* registerDomain has returned without a Create or a Patch.
C4_Witness ==
    \E r \in Regs :
        /\ pc[r] = "verifyDomainIfNeeded"
        /\ calls[r] = <<"Get(reg)", "Get(domain)">>
        /\ RefOf(r) \in Range(DomainOf(r).registrations)

\* C5: when no CustomDomain of the registration's name exists and the Create
\* succeeds, the store holds a CustomDomain of that name whose
\* spec.registrations is the one reference of the registration, and
\* registerDomain returns no error.
C5_CreateBindsOnlyCreator ==
    [][\A r \in Regs :
          (pc[r] = "Create" /\ Steps(r) /\ ~FailedCall(r) /\ ~DomainOf(r).exists)
          => /\ domains'[regs[r].name].exists
             /\ domains'[regs[r].name].name = regs[r].name
             /\ domains'[regs[r].name].registrations = <<RefOf(r)>>
             /\ \A h \in Hostnames \ {regs[r].name} : domains'[h] = domains[h]
             /\ pc'[r] = "verifyDomainIfNeeded"]_vars

\* registerDomain has created the CustomDomain and returned.
C5_Witness ==
    \E r \in Regs :
        /\ pc[r] = "verifyDomainIfNeeded"
        /\ calls[r] = <<"Get(reg)", "Get(domain)", "Create(domain)">>
        /\ DomainOf(r).registrations = <<RefOf(r)>>

\* C6: unregister on absence.  When the CustomDomain does not exist, or its
\* list has no element matching the registration, unregisterDomain returns
\* (false, nil) after its Get: no Create, no Patch, the stored CustomDomain as
\* it was.
C6_UnregisterAbsentIsNoOp ==
    [][\A r \in Regs :
          (/\ pc[r] = "unregisterDomain"
           /\ Steps(r)
           /\ ~FailedCall(r)
           /\ \/ ~DomainOf(r).exists
              \/ RefOf(r) \notin Range(DomainOf(r).registrations))
          => /\ domains' = domains
             /\ calls'[r] = <<"Get(reg)", "Get(domain)">>
             /\ pc'[r] = "Status.Update"
             /\ conditions'[r] =
                   <<[type |-> RegistrationAccepted, status |-> ConditionFalse,
                      message |-> "", lastTransitionTime |-> 0]>>
             /\ doFinalize'[r]]_vars

\* unregisterDomain has returned (false, nil) for a registration that the
\* existing CustomDomain does not list.
C6_Witness ==
    \E r \in Regs :
        /\ pc[r] = "Status.Update"
        /\ reg[r].deletionTimestamp
        /\ calls[r] = <<"Get(reg)", "Get(domain)">>
        /\ doFinalize[r]
        /\ DomainOf(r).exists
        /\ DomainOf(r).registrations # <<>>

\* The calls of a deletion pass that patches the CustomDomain, in order.
DeletionCalls ==
    <<"Get(reg)", "Get(domain)", "Patch(domain)", "Status().Update(reg)",
      "Update(reg)">>

\* C7: a pass for a registration with deletionTimestamp set that is the only
\* member of its CustomDomain's list, none of whose API calls fails, patches
\* the list to empty, then persists exactly Accepted = False, then removes
\* the finalizer.
C7_DeletionPassOfSoleMember ==
    [][\A r \in Regs :
          /\ (/\ pc[r] = "unregisterDomain.Patch"
              /\ Steps(r)
              /\ ~FailedCall(r)
              /\ domain[r].registrations = <<RefOf(r)>>)
             => /\ DomainOf(r)'.registrations = <<>>
                /\ calls'[r] = SubSeq(DeletionCalls, 1, 3)
                /\ pc'[r] = "Status.Update"
          /\ (/\ pc[r] = "Status.Update"
              /\ Steps(r)
              /\ ~FailedCall(r)
              /\ UpdateErr(r, reg[r]) = NoErr
              /\ calls[r] = SubSeq(DeletionCalls, 1, 3)
              /\ conditions[r][1].status # ConditionUnknown)
             => /\ calls'[r] = SubSeq(DeletionCalls, 1, 4)
                /\ Len(regs'[r].conditions) = 1
                /\ regs'[r].conditions[1].type = RegistrationAccepted
                /\ regs'[r].conditions[1].status = ConditionFalse
                /\ regs'[r].finalizers = regs[r].finalizers
                /\ pc'[r] = "Remove"
          /\ (/\ pc[r] = "Remove"
              /\ Steps(r)
              /\ ~FailedCall(r)
              /\ calls[r] = SubSeq(DeletionCalls, 1, 4))
             => /\ calls'[r] = DeletionCalls
                /\ DomainFinalizer \notin regs'[r].finalizers
                /\ result'[r] = [requeue |-> FALSE, err |-> NoErr]
                /\ pc'[r] = "idle"]_vars

\* Such a pass has returned: the list is empty, Accepted = False is
\* persisted and the finalizer is gone.
C7_Witness ==
    \E r \in Regs :
        /\ pc[r] = "idle"
        /\ calls[r] = DeletionCalls
        /\ result[r].err = NoErr
        /\ regs[r].exists
        /\ regs[r].deletionTimestamp
        /\ DomainFinalizer \notin regs[r].finalizers
        /\ PersistedAcceptedFalse(r)
        /\ DomainOf(r).registrations = <<>>

\* The calls of a pass that ends in the Create of registerDomain.
CreateCalls == <<"Get(reg)", "Get(domain)", "Create(domain)">>

\* C8: two registrations race to create the missing CustomDomain.  The
\* Create of the loser fails and the error is what its pass returns; that
\* pass has persisted no status and written nothing.  The next pass of the
\* loser finds the CustomDomain and appends its own reference to the list it
\* found, so that the references found and its own are in the list.
C8_CreateRaceLoserRetries ==
    [][\A r \in Regs :
          /\ (pc[r] = "Create" /\ Steps(r) /\ ~FailedCall(r) /\ DomainOf(r).exists)
             => /\ pc'[r] = "idle"
                /\ result'[r] = [requeue |-> FALSE, err |-> "AlreadyExists"]
                /\ calls'[r] = CreateCalls
                /\ regs' = regs
                /\ domains' = domains
          /\ (/\ result[r].err = "AlreadyExists"
              /\ pc[r] = "registerDomain"
              /\ Steps(r)
              /\ ~FailedCall(r))
             => /\ pc'[r] = "registerDomain.Patch"
                /\ domain'[r] = DomainOf(r)
                /\ domain'[r].exists
          /\ (/\ result[r].err = "AlreadyExists"
              /\ pc[r] = "registerDomain.Patch"
              /\ Steps(r)
              /\ ~FailedCall(r))
             => /\ DomainOf(r)'.registrations =
                      Append(domain[r].registrations, RefOf(r))
                /\ RefOf(r) \notin Range(domain[r].registrations)
                /\ pc'[r] = "verifyDomainIfNeeded"]_vars

\* The loser of a create race has, in its next pass, appended its reference:
\* the references of both registrations are in the list.
C8_Witness ==
    \E r \in Regs :
        /\ result[r].err = "AlreadyExists"
        /\ pc[r] = "verifyDomainIfNeeded"
        /\ calls[r] = <<"Get(reg)", "Get(domain)", "Patch(domain)">>
        /\ \A q \in Regs : RefOf(q) \in Range(DomainOf(r).registrations)
        /\ Len(DomainOf(r).registrations) = 2

\* The step the pass of r takes is an API call that returns an error other
\* than the not-found of a Get: an injected failure, a refused Update, or a
\* Create of what exists.
CallFails(r) ==
    \/ FailedCall(r)
    \/ /\ Steps(r)
       /\ pc[r] \in {"Ensure", "Status.Update", "Remove"}
       /\ UpdateErr(r, reg[r]) # NoErr
    \/ /\ Steps(r)
       /\ pc[r] = "Create"
       /\ DomainOf(r).exists

\* The positions of a pass inside unregisterDomain and verifyDomainIfNeeded.
InUnregister == {"unregisterDomain", "unregisterDomain.Patch"}
InVerify == {"verifyDomainIfNeeded"}

\* The pass of r is aborted by the step: it returns an error, and neither
\* has it called the status update nor does it write anything.
Aborted(r) ==
    /\ pc'[r] = "idle"
    /\ result'[r].err # NoErr
    /\ ~result'[r].requeue
    /\ "Status().Update(reg)" \notin Range(calls'[r])
    /\ regs' = regs
    /\ domains' = domains

\* C9 as stated: a failing API call at any step before the status update
\* (loading the registration, persisting the finalizer, the Get, Create or
\* Patch of the CustomDomain inside register, unregister or verify) aborts
\* the pass: no status update in that pass, and the pass returns an error.
C9_AnyFailureAbortsPass ==
    [][\A r \in Regs :
          (CallFails(r) /\ pc[r] \notin {"Status.Update", "Remove"})
          => Aborted(r)]_vars

\* C9 as amended: a failing API call when loading the registration, when
\* persisting the finalizer or inside register aborts the pass (no status
\* update, an error returned), and so does a failing status update or
\* finalizer removal (an error returned, nothing persisted by the call).  A
\* failing call inside unregister or verify does not abort the pass: the
\* error becomes an Unknown condition, the status update is called next, and
\* the pass returns no error when that update succeeds.
C9_FailureAbortsOutsideUnregisterAndVerify ==
    [][\A r \in Regs :
          /\ (CallFails(r) /\ pc[r] \notin InUnregister \cup InVerify
                           /\ pc[r] \notin {"Status.Update", "Remove"})
             => Aborted(r)
          /\ (CallFails(r) /\ pc[r] \in {"Status.Update", "Remove"})
             => /\ pc'[r] = "idle"
                /\ result'[r].err # NoErr
                /\ regs' = regs
                /\ domains' = domains
          /\ (CallFails(r) /\ pc[r] \in InUnregister \cup InVerify)
             => /\ pc'[r] = "Status.Update"
                /\ Len(conditions'[r]) = 1
                /\ conditions'[r][1].status = ConditionUnknown
                /\ conditions'[r][1].message = "StoreError"
          /\ (/\ pc[r] = "Status.Update"
              /\ Steps(r)
              /\ ~CallFails(r)
              /\ conditions[r][1].status = ConditionUnknown)
             => /\ pc'[r] = "idle"
                /\ result'[r] = [requeue |-> FALSE, err |-> NoErr]
                /\ regs'[r].conditions[1].status = ConditionUnknown]_vars

\* A pass has been aborted by the failing Patch of registerDomain.
C9_Witness ==
    \E r \in Regs :
        /\ pc[r] = "idle"
        /\ result[r].err = "StoreError"
        /\ calls[r] = <<"Get(reg)", "Get(domain)", "Patch(domain)">>
        /\ ~regs[r].deletionTimestamp
        /\ regs[r].conditions = <<>>

\* The condition a pass persists for the error err on the type t.
UnknownCondition(t, err) ==
    [type |-> t, status |-> ConditionUnknown, message |-> err,
     lastTransitionTime |-> 0]

\* The conditions of the stored registration are the one condition c,
\* whatever its lastTransitionTime.
Persisted(stored, c) ==
    /\ Len(stored.conditions) = 1
    /\ stored.conditions[1].type = c.type
    /\ stored.conditions[1].status = c.status
    /\ stored.conditions[1].message = c.message

\* C10: an error of unregister is persisted as Accepted = Unknown and an
\* error of verify as Verified = Unknown, each with the message of the error
\* and as the only condition; after an error of unregister the pass leaves
\* the finalizer in place.
C10_ErrorSurfacedAsUnknown ==
    [][\A r \in Regs :
          /\ (CallFails(r) /\ pc[r] \in InUnregister)
             => /\ conditions'[r] =
                      <<UnknownCondition(RegistrationAccepted, "StoreError")>>
                /\ ~doFinalize'[r]
          /\ (CallFails(r) /\ pc[r] \in InVerify)
             => conditions'[r] =
                   <<UnknownCondition(RegistrationVerified, "StoreError")>>
          /\ (/\ pc[r] \in InVerify
              /\ Steps(r)
              /\ ~CallFails(r)
              /\ DomainOf(r).verificationKey # NoKey
              /\ regs[r].name = "bad_host")
             => conditions'[r] =
                   <<UnknownCondition(RegistrationVerified, "NamingError")>>
          /\ (/\ pc[r] = "Status.Update"
              /\ Steps(r)
              /\ ~CallFails(r)
              /\ conditions[r][1].status = ConditionUnknown)
             => /\ Persisted(regs'[r], conditions[r][1])
                /\ conditions[r][1].type =
                      IF reg[r].deletionTimestamp THEN RegistrationAccepted
                                                  ELSE RegistrationVerified
                /\ conditions[r][1].message # ""
                /\ regs'[r].finalizers = regs[r].finalizers
                /\ pc'[r] = "idle"]_vars

\* One registration has Accepted = Unknown persisted after a failed
\* unregister and still carries the finalizer; the other has
\* Verified = Unknown persisted after a failed verify.
C10_Witness ==
    \E r, q \in Regs :
        /\ Persisted(regs[r], UnknownCondition(RegistrationAccepted, "StoreError"))
        /\ DomainFinalizer \in regs[r].finalizers
        /\ pc[r] = "idle"
        /\ Persisted(regs[q], UnknownCondition(RegistrationVerified, "NamingError"))

---------------------------------------------------------------------------
(* Registrations that were verified before *)

\* The reference of registration r when it is named n.
RefNamed(r, n) == [namespace |-> Namespace(r), name |-> n, uid |-> UID(r)]

\* The TXT record verifyDomainIfNeeded appends for the registration with UID
\* uid when the CustomDomain n has the verification key k.
TXTRecord(n, k, uid) ==
    [name |-> MakeDNSRecordName(n).value, type |-> "TXT",
     value |-> VerificationTokenGenerator(k, uid)]

\* A stored registration r, named n, that holds the finalizer and whose
\* status an earlier pass left while the key was "k", and that a verifier
\* has since set to Verified = True at time 1.
VerifiedBefore(r, n) ==
    [exists |-> TRUE, name |-> n, deletionTimestamp |-> FALSE,
     finalizers |-> {DomainFinalizer},
     conditions |-> <<[type |-> RegistrationVerified, status |-> ConditionTrue,
                       message |-> "", lastTransitionTime |-> 1]>>,
     dnsRecords |-> IF MakeDNSRecordName(n).err = NoErr
                    THEN <<ARecord(n), TXTRecord(n, "k", UID(r))>>
                    ELSE <<>>]

\* The stored registration r, named n, that no pass has seen yet.
NewRegistration(r, n) ==
    [exists |-> TRUE, name |-> n, deletionTimestamp |-> FALSE,
     finalizers |-> {}, conditions |-> <<>>, dnsRecords |-> <<>>]

\* The CustomDomain named n to which r1 is bound: it has kept its
\* verification key, or an administrator has taken the key away, or has
\* deleted the CustomDomain.
VerifiedDomains(n) ==
    {OldDomain(n, <<RefNamed("r1", n)>>, k) : k \in {NoKey, "k"}}
        \cup {NoDomain}

\* r1 was bound and verified before, r2 is new.
InitVerified ==
    /\ \E n \in Hostnames :
        /\ regs = [r \in Regs |-> IF r = "r1" THEN VerifiedBefore(r, n)
                                              ELSE NewRegistration(r, n)]
        /\ \E d \in VerifiedDomains(n) :
              domains = [h \in Hostnames |-> IF h = n THEN d ELSE NoDomain]
    /\ now = 1
    /\ failures = 0
    /\ pc = [r \in Regs |-> "idle"]
    /\ reg = [r \in Regs |-> NoReg]
    /\ domain = [r \in Regs |-> NoDomain]
    /\ conditions = [r \in Regs |-> <<>>]
    /\ doFinalize = [r \in Regs |-> FALSE]
    /\ calls = [r \in Regs |-> <<>>]
    /\ result = [r \in Regs |-> NoResult]

SpecVerified == InitVerified /\ [][Next]_vars

\* The conditions conds hold a Verified condition of status s.
VerifiedIs(conds, s) ==
    \E i \in 1..Len(conds) :
        conds[i].type = RegistrationVerified /\ conds[i].status = s

\* The pass of r, on the normal branch, persists its status with this step.
PersistsVerified(r) ==
    /\ pc[r] = "Status.Update"
    /\ Steps(r)
    /\ ~CallFails(r)
    /\ ~reg[r].deletionTimestamp

\* C11 as stated: once the persisted Verified condition is True, every
\* normal-branch pass whose verify returned no error persists Verified = True
\* again, whatever the verification key of the CustomDomain.
C11_VerifiedStickyOnceTrue ==
    [][\A r \in Regs :
          (/\ PersistsVerified(r)
           /\ VerifiedIs(regs[r].conditions, ConditionTrue)
           /\ conditions[r][1].status # ConditionUnknown)
          => VerifiedIs(regs'[r].conditions, ConditionTrue)]_vars

\* C11 as amended: with the persisted Verified condition True, a
\* normal-branch pass whose verify finds the CustomDomain with a verification
\* key and a name that maps to a record name reports verified = true, and
\* one that finds it without a key reports verified = false; what the pass
\* reports is what it persists, and a True persisted again keeps its
\* lastTransitionTime.
C11_VerifiedStickyWhileKeyPresent ==
    [][\A r \in Regs :
          /\ (/\ pc[r] = "verifyDomainIfNeeded"
              /\ Steps(r)
              /\ ~CallFails(r)
              /\ VerifiedIs(reg[r].conditions, ConditionTrue))
             => conditions'[r] =
                   <<VerifiedCondition(
                        DomainOf(r).verificationKey # NoKey,
                        IF DomainOf(r).verificationKey # NoKey
                        THEN MakeDNSRecordName(DomainOf(r).name).err
                        ELSE NoErr)>>
          /\ (/\ PersistsVerified(r)
              /\ VerifiedIs(regs[r].conditions, ConditionTrue))
             => /\ Persisted(regs'[r], conditions[r][1])
                /\ VerifiedIs(regs'[r].conditions, ConditionTrue)
                   => regs'[r].conditions = regs[r].conditions]_vars

\* A pass has persisted Verified = True again, at a later time, for a
\* registration that was verified before, the CustomDomain having its key.
C11_Witness ==
    \E r \in Regs :
        /\ pc[r] = "idle"
        /\ calls[r] = <<"Get(reg)", "Get(domain)", "Get(domain)",
                        "Status().Update(reg)">>
        /\ result[r].err = NoErr
        /\ DomainOf(r).verificationKey # NoKey
        /\ VerifiedIs(regs[r].conditions, ConditionTrue)
        /\ now > regs[r].conditions[1].lastTransitionTime


\* C12: when the CustomDomain has no verification key, verify returns
\* verified = false without error and leaves the DNSRecords of the
\* registration as loaded (no token is generated, no record added), and the
\* status the pass persists has the DNSRecords that were stored before.
C12_NoKeyNoRecord ==
    [][\A r \in Regs :
          /\ (/\ pc[r] = "verifyDomainIfNeeded"
              /\ Steps(r)
              /\ ~CallFails(r)
              /\ DomainOf(r).exists
              /\ DomainOf(r).verificationKey = NoKey)
             => /\ conditions'[r] = <<VerifiedCondition(FALSE, NoErr)>>
                /\ reg'[r].dnsRecords = reg[r].dnsRecords
                /\ reg'[r].dnsRecords = regs[r].dnsRecords
          /\ (/\ PersistsVerified(r)
              /\ DomainOf(r).verificationKey = NoKey
              /\ conditions[r][1].status # ConditionUnknown)
             => /\ regs'[r].dnsRecords = regs[r].dnsRecords
                /\ VerifiedIs(regs'[r].conditions, ConditionFalse)]_vars

\* A pass over a registration that had DNSRecords stored has persisted
\* Verified = False for a CustomDomain without key, the records still there.
C12_Witness ==
    \E r \in Regs :
        /\ pc[r] = "idle"
        /\ calls[r] = <<"Get(reg)", "Get(domain)", "Get(domain)",
                        "Status().Update(reg)">>
        /\ result[r].err = NoErr
        /\ DomainOf(r).verificationKey = NoKey
        /\ VerifiedIs(regs[r].conditions, ConditionFalse)
        /\ Len(regs[r].dnsRecords) = 2
        /\ regs[r].dnsRecords # DomainOf(r).dnsRecords


\* The pass r is in is a normal-branch pass that follows a normal-branch
\* pass of r in which no call failed and which persisted its status.
FollowsSuccessfulPass(r) ==
    /\ ~reg[r].deletionTimestamp
    /\ result[r] = [requeue |-> FALSE, err |-> NoErr]
    /\ Len(regs[r].conditions) = 1
    /\ regs[r].conditions[1].type = RegistrationVerified
    /\ regs[r].conditions[1].message # "StoreError"

\* C13: a normal-branch pass that follows a successful one, and that finds
\* its reference still in the list, changes nothing: the stored CustomDomain
\* and the stored registration (conditions with their lastTransitionTime,
\* DNSRecords) are after it what they were before.  With a verification
\* key, the DNSRecords are the records of the CustomDomain and one TXT
\* record with the token.
C13_SecondPassIsFixpoint ==
    [][\A r \in Regs :
          /\ (/\ FollowsSuccessfulPass(r)
              /\ pc[r] = "registerDomain"
              /\ Steps(r)
              /\ ~CallFails(r)
              /\ RefOf(r) \in Range(DomainOf(r).registrations))
             => /\ pc'[r] = "verifyDomainIfNeeded"
                /\ domains' = domains
                /\ regs' = regs
          /\ (/\ FollowsSuccessfulPass(r)
              /\ pc[r] = "verifyDomainIfNeeded"
              /\ Steps(r))
             => /\ domains' = domains
                /\ regs' = regs
          /\ (/\ FollowsSuccessfulPass(r)
              /\ PersistsVerified(r)
              /\ calls[r] = <<"Get(reg)", "Get(domain)", "Get(domain)">>
              /\ conditions[r][1].message # "StoreError")
             => /\ regs'[r] = regs[r]
                /\ domains' = domains
                /\ (/\ DomainOf(r).verificationKey # NoKey
                    /\ MakeDNSRecordName(DomainOf(r).name).err = NoErr)
                   => regs'[r].dnsRecords =
                         Append(DomainOf(r).dnsRecords,
                                TXTRecord(DomainOf(r).name,
                                          DomainOf(r).verificationKey,
                                          UID(r)))]_vars

\* The registration r, alone in having a status, has gone through a second
\* pass at a later time: its DNSRecords are the record of the CustomDomain
\* and one TXT record, its Verified condition has the time of the first.
C13_Witness ==
    \E r \in Regs :
        /\ pc[r] = "idle"
        /\ calls[r] = <<"Get(reg)", "Get(domain)", "Get(domain)",
                        "Status().Update(reg)">>
        /\ result[r].err = NoErr
        /\ failures = 0
        /\ \A q \in Regs \ {r} : regs[q].conditions = <<>>
        /\ VerifiedIs(regs[r].conditions, ConditionFalse)
        /\ regs[r].conditions[1].lastTransitionTime < now
        /\ Len(regs[r].dnsRecords) = 2
        /\ regs[r].dnsRecords[2].type = "TXT"


\* No two conditions of conds have the same type.
OnePerType(conds) ==
    \A i, j \in 1..Len(conds) : conds[i].type = conds[j].type => i = j

\* C14: the status a pass persists holds exactly one condition, of type
\* Verified when the pass took the normal branch and of type Accepted when
\* it took the deletion branch (conditions persisted before are dropped);
\* and no stored condition set has two conditions of one type.
C14_OneConditionPerPass ==
    [][\A r \in Regs :
          /\ (pc[r] = "Status.Update" /\ Steps(r) /\ ~CallFails(r))
             => /\ Len(regs'[r].conditions) = 1
                /\ regs'[r].conditions[1].type =
                      IF reg[r].deletionTimestamp THEN RegistrationAccepted
                                                  ELSE RegistrationVerified
          /\ OnePerType(regs'[r].conditions)]_vars

\* A deletion pass has persisted its status for a registration to which a
\* normal-branch pass had persisted Verified and DNSRecords: Accepted is
\* the only condition left.
C14_Witness ==
    \E r \in Regs :
        /\ pc[r] = "Remove"
        /\ regs[r].dnsRecords # <<>>
        /\ Len(reg[r].conditions) = 1
        /\ regs[r].conditions = reg[r].conditions
        /\ regs[r].conditions[1].type = RegistrationAccepted


\* C15: the controller does not turn Verified to True: no step takes a
\* stored registration whose Verified condition is absent, False or Unknown
\* to one whose Verified condition is True, and a pass that loaded a
\* registration without Verified = True reports no Verified = True.
C15_NeverVerifiesByItself ==
    [][\A r \in Regs :
          /\ ~VerifiedIs(regs[r].conditions, ConditionTrue)
             => ~VerifiedIs(regs'[r].conditions, ConditionTrue)
          /\ (/\ pc[r] = "verifyDomainIfNeeded"
              /\ Steps(r)
              /\ ~VerifiedIs(reg[r].conditions, ConditionTrue))
             => ~VerifiedIs(conditions'[r], ConditionTrue)]_vars

\* Of two registrations of a CustomDomain that has its key, the one
\* verified before has Verified = True persisted again and the other one,
\* new, has Verified = False persisted.
C15_Witness ==
    \E r, q \in Regs :
        /\ pc[r] = "idle"
        /\ pc[q] = "idle"
        /\ DomainOf(r).verificationKey # NoKey
        /\ VerifiedIs(regs[r].conditions, ConditionFalse)
        /\ Len(regs[r].dnsRecords) = 2
        /\ VerifiedIs(regs[q].conditions, ConditionTrue)
        /\ calls[q] = <<"Get(reg)", "Get(domain)", "Get(domain)",
                        "Status().Update(reg)">>

\* C15 (second half): where no registration starts with Verified = True, no
\* registration ever has Verified = True.
C15_VerifiedTrueUnreachable ==
    \A r \in Regs : ~VerifiedIs(regs[r].conditions, ConditionTrue)

---------------------------------------------------------------------------
(* Registrations that are not deleted, delivered again and again *)

\* A step of the pass of r on the normal branch, the delivery of r included.
NormalPass(r) ==
    \/ LoadRegistration(r)
    \/ EnsureAdd(r)
    \/ RegisterGet(r)
    \/ RegisterCreate(r)
    \/ RegisterPatch(r)
    \/ VerifyDomain(r)
    \/ UpdateStatus(r)

NextBinding == \E r \in Regs : NormalPass(r)

\* Every registration is delivered again after each of its passes, and a
\* pass that has started goes on to its end.
FairBinding == \A r \in Regs : WF_vars(NormalPass(r))

SpecBinding == Init /\ [][NextBinding]_vars /\ FairBinding

\* The number of references to registration r in the stored list of its
\* CustomDomain.
Bindings(r) ==
    Cardinality({i \in 1..Len(DomainOf(r).registrations) :
                    ~RemoveMatch(DomainOf(r).registrations[i], RefOf(r))})

\* Every registration is in the list of the CustomDomain exactly once.
AllBound == \A r \in Regs : DomainOf(r).exists /\ Bindings(r) = 1

\* C16: with the registrations not deleted and delivered again and again,
\* and the API calls failing only MaxFailures times, the list of the
\* CustomDomain comes to hold every registration exactly once and stays so.
C16_BindingConverges == <>[]AllBound

\* Both registrations are bound and at rest after a run in which an API
\* call failed and the list was once overwritten by a stale patch (the
\* reference of r2 comes before that of r1).
C16_Witness ==
    /\ AllBound
    /\ \A r \in Regs : pc[r] = "idle"
    /\ failures = MaxFailures
    /\ DomainOf("r1").registrations = <<RefOf("r2"), RefOf("r1")>>

---------------------------------------------------------------------------
(* Registrations delivered again and again, deleted or not *)

\* A step of a pass of r on either branch, the delivery of r included.
Pass(r) ==
    \/ NormalPass(r)
    \/ UnregisterGet(r)
    \/ UnregisterPatch(r)
    \/ FinalizerRemove(r)

\* Every registration is delivered again after each of its passes, and a
\* pass that has started goes on to its end.
FairPasses == \A r \in Regs : WF_vars(Pass(r))

\* No CustomDomain yet, and two registrations that no pass has seen.
InitDeletion ==
    /\ Init
    /\ \A h \in Hostnames : ~domains[h].exists
    /\ \A r \in Regs : regs[r].finalizers = {}

SpecDeletion == InitDeletion /\ [][Next]_vars /\ FairPasses

\* Registration r is being deleted and holds the finalizer.
Deleting(r) ==
    /\ regs[r].exists
    /\ regs[r].deletionTimestamp
    /\ DomainFinalizer \in regs[r].finalizers

\* C17: a registration that is being deleted and holds the finalizer, and
\* that is delivered again after every pass, has the finalizer removed by a
\* later pass, the API calls failing only MaxFailures times.
C17_DeletionCompletes ==
    \A r \in Regs : Deleting(r) ~> (DomainFinalizer \notin regs[r].finalizers)

\* A deletion pass has patched the CustomDomain and then failed in its
\* status update: the registration still holds the finalizer.
C17_Witness ==
    \E r \in Regs :
        /\ Deleting(r)
        /\ pc[r] = "idle"
        /\ result[r].err = "StoreError"
        /\ calls[r] = <<"Get(reg)", "Get(domain)", "Patch(domain)",
                        "Status().Update(reg)">>


\* C18: no dangling binding: a registration whose reference is in the
\* stored list of its CustomDomain exists and holds the finalizer.
C18_NoDanglingBinding ==
    \A r \in Regs :
        (DomainOf(r).exists /\ RefOf(r) \in Range(DomainOf(r).registrations))
            => /\ regs[r].exists
               /\ DomainFinalizer \in regs[r].finalizers

\* C19: no duplicate members: the stored list of a CustomDomain never holds
\* two references that match on (namespace, name, UID).
C19_NoDuplicateMembers ==
    \A h \in Hostnames :
        \A i, j \in 1..Len(domains[h].registrations) :
            ~RemoveMatch(domains[h].registrations[i],
                         domains[h].registrations[j]) => i = j

\* Both registrations are in the list, after a reference left by an
\* earlier registration, and one of them, delivered again, has found its
\* reference there and patched nothing.
C19_Witness ==
    \E r \in Regs :
        /\ Len(DomainOf(r).registrations) = 3
        /\ \A q \in Regs : RefOf(q) \in Range(DomainOf(r).registrations)
        /\ pc[r] = "verifyDomainIfNeeded"
        /\ calls[r] = <<"Get(reg)", "Get(domain)">>


\* unregisterDomain returns without error with this step of the pass of r.
UnregisterReturns(r) ==
    /\ pc[r] \in InUnregister
    /\ Steps(r)
    /\ ~CallFails(r)
    /\ pc'[r] = "Status.Update"

\* Whenever unregisterDomain returns without error it returns
\* registered = false (Accepted = False, doFinalize true); no stored
\* registration has Accepted = True; and a deletion pass whose unregister
\* and status update have succeeded goes on to finalizer.Remove.
UnregisterNeverStillRegistered(r) ==
    /\ UnregisterReturns(r)
       => /\ conditions'[r] = <<AcceptedCondition(FALSE, NoErr)>>
          /\ doFinalize'[r]
    /\ \A i \in 1..Len(regs'[r].conditions) :
          regs'[r].conditions[i].type = RegistrationAccepted
             => regs'[r].conditions[i].status # ConditionTrue
    /\ (/\ pc[r] = "Status.Update"
        /\ Steps(r)
        /\ ~CallFails(r)
        /\ reg[r].deletionTimestamp
        /\ conditions[r][1].status # ConditionUnknown)
       => /\ pc'[r] = "Remove"
          /\ PersistedAcceptedFalse(r)'

\* C20 as stated: unregister never reports stillRegistered = true, no pass
\* persists Accepted = True, and every deletion pass whose unregister and
\* status update have succeeded removes the finalizer.
C20_SucceededDeletionRemovesFinalizer ==
    [][\A r \in Regs :
          /\ UnregisterNeverStillRegistered(r)
          /\ (pc[r] = "Remove" /\ Steps(r))
             => DomainFinalizer \notin regs'[r].finalizers]_vars

\* C20 as amended: unregister never reports stillRegistered = true, no pass
\* persists Accepted = True, and every deletion pass whose unregister and
\* status update have succeeded calls finalizer.Remove; the finalizer is
\* removed when that call succeeds, and stays, the pass returning the
\* error, when it fails.
C20_SucceededDeletionCallsRemove ==
    [][\A r \in Regs :
          /\ UnregisterNeverStillRegistered(r)
          /\ (pc[r] = "Remove" /\ Steps(r) /\ ~CallFails(r))
             => /\ DomainFinalizer \notin regs'[r].finalizers
                /\ result'[r] = [requeue |-> FALSE, err |-> NoErr]
          /\ (pc[r] = "Remove" /\ Steps(r) /\ CallFails(r))
             => /\ regs' = regs
                /\ result'[r].err # NoErr]_vars

\* A deletion pass has unregistered, persisted Accepted = False and then
\* failed in finalizer.Remove: the registration still holds the finalizer.
C20_Witness ==
    \E r \in Regs :
        /\ Deleting(r)
        /\ pc[r] = "idle"
        /\ result[r].err = "StoreError"
        /\ calls[r] = DeletionCalls
        /\ PersistedAcceptedFalse(r)

=============================================================================
